---------------------------- MODULE Spec2Model ----------------------------
(***************************************************************************)
(* dns_manager (src/dns_manager/core.py): an SSH transport and two         *)
(* configurators (BIND, dnsmasq) that drive one remote host with shell     *)
(* commands and SFTP file writes.                                          *)
(*                                                                         *)
(* Text is a sequence of tokens.  A token is either one character (the     *)
(* characters of zone names, record names and values, command output, and  *)
(* every "}" and the ";" that follows it) or a chunk: a run of template    *)
(* text copied verbatim from the source, which holds no "}" and is never   *)
(* part of a zone name.  Concatenating the tokens gives the program's      *)
(* string.                                                                 *)
(***************************************************************************)
EXTENDS Integers, Sequences, FiniteSets, TLC

VARIABLES
    transport,   \* paramiko session of SSHClient.client: "none" | "unauth" | "open"
    connected,   \* history: connect() has succeeded and close() was not called since
    fs,          \* remote file system: path -> text, for the files that exist
    pkgs,        \* remote packages installed
    clock,       \* remote/local time in seconds; one second passes per configurator call
    last,        \* the last configurator call: what was asked, what reached the
                 \* host, how it ended, and the same in short of the call before
    rejected     \* history: main configuration text rejected by named-checkconf
                 \* during an add_zone/add_ptr_zone call, <<>> while none (or after
                 \* a call other than add_zone/add_ptr_zone)

vars == <<transport, connected, fs, pkgs, clock, last, rejected>>

(***************************************************************************)
(* Bounds                                                                  *)
(***************************************************************************)
MaxCalls == 2      \* configurator calls in one behaviour
MaxRecords == 3    \* records of a zone_config in the rendering specification
MaxZones == 3      \* zone stanzas of a main configuration in the deletion specification

(***************************************************************************)
(* Generic helpers on token sequences                                      *)
(***************************************************************************)
RECURSIVE Flatten(_)
Flatten(ss) == IF ss = <<>> THEN <<>> ELSE Head(ss) \o Flatten(Tail(ss))

\* Python: sub in s
Contains(sub, s) ==
    \E i \in 0..(Len(s) - Len(sub)) :
        \A k \in 1..Len(sub) : s[i + k] = sub[k]

\* Python: s.endswith(suffix) for a one-character suffix
EndsWith(s, ch) == Len(s) > 0 /\ s[Len(s)] = ch

\* Python: s.split('.')
RECURSIVE SplitDot(_, _)
SplitDot(s, cur) ==
    IF s = <<>> THEN <<cur>>
    ELSE IF Head(s) = "." THEN <<cur>> \o SplitDot(Tail(s), <<>>)
    ELSE SplitDot(Tail(s), Append(cur, Head(s)))

split(s) == SplitDot(s, <<>>)

(***************************************************************************)
(* Paths and fixed commands                                                *)
(***************************************************************************)
named_conf == <<"/etc/named.conf">>
zones_dir == <<"/var/named">>
config_path == <<"/etc/dnsmasq.conf">>

zone_file_path(zone_name) == zones_dir \o <<"/db.">> \o zone_name

CmdRpmQBind == <<"rpm -q bind">>
CmdYumBind == <<"yum -y install bind bind-utils">>
CmdEnableNamed == <<"systemctl enable named">>
CmdStartNamed == <<"systemctl start named">>
CmdBackupNamed == <<"cp /etc/named.conf /etc/named.conf.bak 2>/dev/null || true">>
CmdCheckConf == <<"named-checkconf">>
CmdRestartNamed == <<"systemctl restart named">>
CmdIsActiveNamed == <<"systemctl is-active named">>
CmdCheckZone(zone_name) ==
    <<"named-checkzone ">> \o zone_name \o <<" ">> \o zone_file_path(zone_name)

CmdRpmQDnsmasq == <<"rpm -q dnsmasq">>
CmdYumDnsmasq == <<"yum -y install dnsmasq">>
CmdEnableDnsmasq == <<"systemctl enable dnsmasq">>
CmdStartDnsmasq == <<"systemctl start dnsmasq">>
CmdBackupDnsmasq == <<"cp /etc/dnsmasq.conf /etc/dnsmasq.conf.bak 2>/dev/null || true">>
CmdRestartDnsmasq == <<"systemctl restart dnsmasq">>
CmdIsActiveDnsmasq == <<"systemctl is-active dnsmasq">>

(***************************************************************************)
(* Templates                                                               *)
(***************************************************************************)
\* NamedServer.configure: named_conf_content % config['forwarder']
named_conf_content(forwarder) ==
    << "\noptions {\n        listen-on port 53 { any; ", "}", ";",
       "\n        listen-on-v6 { none; ", "}", ";",
       "\n        directory       \"/var/named\";\n        dump-file       \"/var/named/data/cache_dump.db\";\n        statistics-file \"/var/named/data/named_stats.txt\";\n        memstatistics-file \"/var/named/data/named_mem_stats.txt\";\n        secroots-file   \"/var/named/data/named.secroots\";\n        recursing-file  \"/var/named/data/named.recursing\";\n        allow-query     { any; ",
       "}", ";",
       "\n        forward only;\n        forwarders { " >>
    \o forwarder \o
    << "; ", "}", ";", "\n", "}", ";",
       "\n\nlogging {\n        channel default_debug {\n                file \"data/named.run\";\n                severity dynamic;\n        ",
       "}", ";", "\n", "}", ";",
       "\n\n", "zone \"", ".", "\" IN {",
       "\n        type hint;\n        file \"named.ca\";\n", "}", ";", "\n" >>

\* NamedServer.add_zone: the head of zone_content, up to the record lines
zone_content_head(zone_name, serial) ==
    << "$TTL 86400\n    @       IN      SOA     " >> \o zone_name
    \o << ". admin." >> \o zone_name
    \o << ". (\n                            ", serial,
          "  ; Serial\n                            3600        ; Refresh\n                            1800        ; Retry\n                            604800      ; Expire\n                            86400 )     ; Minimum TTL\n\n    ; Name servers\n    @       IN      NS      ns1." >>
    \o zone_name
    \o << ".\n    @       IN      NS      ns2." >> \o zone_name
    \o << ".\n\n    ; A Records and CNAME Records\n    " >>

\* NamedServer.add_zone: zone_conf, the stanza appended to named.conf
zone_conf(zone_name, type) ==
    << "\n    ", "zone \"" >> \o zone_name
    \o << "\" IN {", "\n            type ", type, ";\n            file \"db." >>
    \o zone_name
    \o << "\";\n            allow-update { none; ", "}", ";", "\n    ", "}", ";", "\n    " >>

\* NamedServer.add_ptr_zone: the head of zone_content
ptr_zone_content_head(reverse_zone, serial) ==
    << "$TTL 86400\n@       IN      SOA     ns1." >> \o reverse_zone
    \o << ". admin." >> \o reverse_zone
    \o << ". (\n                        ", serial,
          "  ; Serial\n                        3600        ; Refresh\n                        1800        ; Retry\n                        604800      ; Expire\n                        86400 )     ; Minimum TTL\n\n@       IN      NS      ns1." >>
    \o reverse_zone
    \o << ".\n@       IN      NS      ns2." >> \o reverse_zone
    \o << ".\n\n; PTR Records\n" >>

\* NamedServer.add_ptr_zone: zone_conf
ptr_zone_conf(reverse_zone) ==
    << "\n", "zone \"" >> \o reverse_zone
    \o << "\" IN {", "\n        type master;\n        file \"db." >>
    \o reverse_zone
    \o << "\";\n        allow-update { none; ", "}", ";", "\n", "}", ";", "\n" >>


(***************************************************************************)
(* The remote host as the program sees it: command output                  *)
(***************************************************************************)
\* stdout of `rpm -q <pkg>`
RpmOut(pkg, installedPkgs) ==
    IF pkg = "bind"
    THEN IF "bind" \in installedPkgs
         THEN <<"b", "i", "n", "d", "-", "9", "\n">>
         ELSE <<"p", "a", "c", "k", "a", "g", "e", " ", "b", "i", "n", "d", " ", "i", "s", " ", "n", "o", "t", " ", "i", "n", "s", "t", "a", "l", "l", "e", "d", "\n">>
    ELSE IF "dnsmasq" \in installedPkgs
         THEN <<"d", "n", "s", "m", "a", "s", "q", "-", "2", "\n">>
         ELSE <<"p", "a", "c", "k", "a", "g", "e", " ", "d", "n", "s", "m", "a", "s", "q", " ", "i", "s", " ", "n", "o", "t", " ", "i", "n", "s", "t", "a", "l", "l", "e", "d", "\n">>

\* stderr of named-checkconf: empty, or an error text
CheckConfErrs == { <<>>, <<"e", "r", "r", "o", "r", "\n">> }

\* (stdout, stderr) of named-checkzone
CheckZoneOuts ==
    { [out |-> <<"O", "K", "\n">>, err |-> <<>>],
      [out |-> <<"e", "r", "r", "o", "r", "\n">>, err |-> <<>>],
      [out |-> <<>>, err |-> <<"e", "r", "r", "o", "r", "\n">>],
      [out |-> <<>>, err |-> <<"w", "\n", "O", "K", "\n">>] }

\* stdout of `systemctl is-active <unit>`
StatusTexts ==
    { <<"a", "c", "t", "i", "v", "e", "\n">>,
      <<"i", "n", "a", "c", "t", "i", "v", "e", "\n">>,
      <<"f", "a", "i", "l", "e", "d", "\n">>,
      <<"a", "c", "t", "i", "v", "a", "t", "i", "n", "g", "\n">>,
      <<>> }

\* int(time.time()) as text, by the second
Timestamp ==
    << "1700000000", "1700000001", "1700000002", "1700000003",
       "1700000004", "1700000005", "1700000006" >>

now == Timestamp[clock + 1]

(***************************************************************************)
(* Exceptions and the state of one call in progress                        *)
(***************************************************************************)
NoExc == [kind |-> "ok", msg |-> <<>>]
DNSConfigError(msg) == [kind |-> "DNSConfigError", msg |-> msg]

\* what paramiko raises when the client holds no usable session
SessionError ==
    IF transport = "none"
    THEN [kind |-> "AttributeError", msg |-> <<"'NoneType' object has no attribute">>]
    ELSE [kind |-> "SSHException", msg |-> <<"Unable to open channel.">>]

Begin == [fs |-> fs, pkgs |-> pkgs, cmds |-> <<>>, sftp |-> <<>>, exc |-> NoExc]

\* the one element of a one-element set: { F(m) : m \in {e} } evaluates e once
Only(S) == CHOOSE r \in S : TRUE

Raised(m) == m.exc.kind # "ok"
Raise(m0, e) == Only({ IF Raised(m) THEN m ELSE [m EXCEPT !.exc = e] : m \in {m0} })

\* except Exception as e: raise DNSConfigError(f"<prefix>{str(e)}")
Wrap(m0, prefix) ==
    Only({ IF Raised(m) THEN [m EXCEPT !.exc = DNSConfigError(<<prefix>> \o m.exc.msg)]
           ELSE m : m \in {m0} })

\* dict.get(key, default)
Get(config, key, default) == IF key \in DOMAIN config THEN config[key] ELSE default

Exists(f, path) == path \in DOMAIN f
Put(f, path, text) ==
    [q \in (DOMAIN f) \cup {path} |-> IF q = path THEN text ELSE f[q]]
Remove(f, path) == [q \in (DOMAIN f) \ {path} |-> f[q]]
Read(f, path) == IF Exists(f, path) THEN f[path] ELSE <<>>

(***************************************************************************)
(* SSHClient                                                               *)
(***************************************************************************)
\* SSHClient.execute_command: the command reaches the host only through an
\* open session; (stdout, stderr) are returned.
execute_command(m0, command, stdout, stderr) ==
    Only({ IF Raised(m) THEN m
           ELSE IF transport # "open" THEN Raise(m, SessionError)
           ELSE [m EXCEPT !.cmds =
                    Append(m.cmds, [cmd |-> command, out |-> stdout, err |-> stderr])]
           : m \in {m0} })

\* a write that always appends: the fault C9 excludes
sftp_write_always_append(m0, path, mode, data) ==
    Only({ IF Raised(m) THEN m
           ELSE IF transport # "open" THEN Raise(m, SessionError)
           ELSE [m EXCEPT
                   !.fs = Put(m.fs, path, Read(m.fs, path) \o data),
                   !.sftp = Append(m.sftp, [path |-> path, mode |-> mode])]
           : m \in {m0} })

\* a write that always truncates: the fault C10 excludes
sftp_write_always_truncate(m0, path, mode, data) ==
    Only({ IF Raised(m) THEN m
           ELSE IF transport # "open" THEN Raise(m, SessionError)
           ELSE [m EXCEPT
                   !.fs = Put(m.fs, path, data),
                   !.sftp = Append(m.sftp, [path |-> path, mode |-> mode])]
           : m \in {m0} })

\* with self.ssh.client.open_sftp() as sftp: with sftp.file(path, mode) as f: f.write(data)
sftp_write(m0, path, mode, data) ==
    Only({ IF Raised(m) THEN m
           ELSE IF transport # "open" THEN Raise(m, SessionError)
           ELSE [m EXCEPT
                   !.fs = Put(m.fs, path,
                              IF mode = "a" THEN Read(m.fs, path) \o data ELSE data),
                   !.sftp = Append(m.sftp, [path |-> path, mode |-> mode])]
           : m \in {m0} })

\* the same, opening for 'r': the file must exist
sftp_open_r(m0, path) ==
    Only({ IF Raised(m) THEN m
           ELSE IF transport # "open" THEN Raise(m, SessionError)
           ELSE IF ~Exists(m.fs, path)
                THEN [m EXCEPT !.exc = [kind |-> "IOError", msg |-> <<"[Errno 2] No such file">>],
                               !.sftp = Append(m.sftp, [path |-> path, mode |-> "r"])]
           ELSE [m EXCEPT !.sftp = Append(m.sftp, [path |-> path, mode |-> "r"])]
           : m \in {m0} })

\* for cmd in commands: self.ssh.execute_command(cmd)
RECURSIVE run_commands(_, _)
run_commands(m, commands) ==
    IF commands = <<>> THEN m
    ELSE run_commands(execute_command(m, Head(commands), <<>>, <<>>), Tail(commands))

\* stdout / stderr of the last command that reached the host
LastOut(m) == m.cmds[Len(m.cmds)].out
LastErr(m) == m.cmds[Len(m.cmds)].err

(***************************************************************************)
(* What the commands do on the host (each follows its execute_command and  *)
(* is skipped when that one raised)                                        *)
(***************************************************************************)
\* yum -y install: the package is installed when yum succeeds
host_yum(m0, pkg, ok) ==
    Only({ IF Raised(m) \/ ~ok THEN m ELSE [m EXCEPT !.pkgs = @ \cup {pkg}] : m \in {m0} })

\* cp src dst 2>/dev/null || true
host_cp(m0, src, dst) ==
    Only({ IF Raised(m) \/ ~Exists(m.fs, src) THEN m
           ELSE [m EXCEPT !.fs = Put(m.fs, dst, m.fs[src])] : m \in {m0} })

\* rm -f path
host_rm(m0, path) ==
    Only({ IF Raised(m) THEN m ELSE [m EXCEPT !.fs = Remove(m.fs, path)] : m \in {m0} })

(***************************************************************************)
(* The tests on command output                                             *)
(***************************************************************************)
\* if stderr: raise DNSConfigError(f"<prefix>{stderr}")
raise_if_stderr(m0, prefix) ==
    Only({ IF ~Raised(m) /\ LastErr(m) # <<>>
           THEN Raise(m, DNSConfigError(<<prefix>> \o LastErr(m)))
           ELSE m : m \in {m0} })

\* if stderr and "OK" not in stderr: raise DNSConfigError(...)
raise_if_zone_error(m0) ==
    Only({ IF ~Raised(m) /\ LastErr(m) # <<>> /\ ~Contains(<<"O", "K">>, LastErr(m))
           THEN Raise(m, DNSConfigError(<<"Zone file syntax error: ">> \o LastErr(m)))
           ELSE m : m \in {m0} })

\* if "active" not in stdout: raise DNSConfigError(message)
raise_unless_active(m0, message) ==
    Only({ IF ~Raised(m) /\ ~Contains(<<"a", "c", "t", "i", "v", "e">>, LastOut(m))
           THEN Raise(m, DNSConfigError(<<message>>))
           ELSE m : m \in {m0} })

\* config[key]
require_key(m0, config, key) ==
    Only({ IF Raised(m) \/ key \in DOMAIN config THEN m
           ELSE Raise(m, [kind |-> "KeyError", msg |-> <<"'", key, "'">>]) : m \in {m0} })

(***************************************************************************)
(* NamedServer                                                             *)
(***************************************************************************)
\* install, from the answer of the package query on
install_after_query(q, env) ==
    IF Raised(q) THEN q
    ELSE IF Contains(<<"b", "i", "n", "d", "-">>, LastOut(q)) THEN q
    ELSE Wrap(execute_command(
                execute_command(
                  host_yum(execute_command(q, CmdYumBind, <<>>, <<>>), "bind", env.yum),
                  CmdEnableNamed, <<>>, <<>>),
                CmdStartNamed, <<>>, <<>>),
              "Failed to install BIND: ")

NamedServer_install(m0, env) ==
    Only({ install_after_query(q, env) :
             q \in { execute_command(m, CmdRpmQBind, RpmOut("bind", m.pkgs), <<>>) : m \in {m0} } })

NamedServer_configure(m0, config, env) ==
    LET i == NamedServer_install(m0, env)
        b == host_cp(execute_command(i, CmdBackupNamed, <<>>, <<>>),
                     named_conf, <<"/etc/named.conf.bak">>)
        k == require_key(b, config, "forwarder")
        w == sftp_write(k, named_conf, "w",
                        named_conf_content(Get(config, "forwarder", <<>>)))
        c == raise_if_stderr(execute_command(w, CmdCheckConf, <<>>, env.checkconf),
                             "named.conf syntax error: ")
        p == run_commands(c, << <<"chown root:named /etc/named.conf">>,
                                 <<"restorecon -v /etc/named.conf">>,
                                 <<"chmod 640 /etc/named.conf">> >>)
        r == execute_command(p, CmdRestartNamed, <<>>, <<>>)
        a == raise_unless_active(execute_command(r, CmdIsActiveNamed, env.status, <<>>),
                                 "named failed to start after configuration")
    IN  Wrap(a, "Failed to configure BIND: ")

\* add_zone: the two loops over zone_config.get('records', [])
RECURSIVE a_record_lines(_)
a_record_lines(records) ==
    IF records = <<>> THEN <<>>
    ELSE LET record == Head(records)
         IN  (IF record.type = "A"
              THEN IF record.name = <<"@">>
                   THEN <<"@", "    IN    A    ">> \o record.value \o <<"\n">>
                   ELSE record.name \o <<"    IN    A    ">> \o record.value \o <<"\n">>
              ELSE <<>>)
             \o a_record_lines(Tail(records))

\* a dot appended to every value that does not end with one: the fault C7 excludes
cname_value_always_dot(value) ==
    IF ~EndsWith(value, ".") THEN value \o <<".">> ELSE value

cname_value(value) ==
    IF Contains(<<".">>, value)
    THEN IF ~EndsWith(value, ".") THEN value \o <<".">> ELSE value
    ELSE value

RECURSIVE cname_record_lines(_)
cname_record_lines(records) ==
    IF records = <<>> THEN <<>>
    ELSE LET record == Head(records)
         IN  (IF record.type = "CNAME"
              THEN record.name \o <<"    IN    CNAME    ">>
                   \o cname_value(record.value) \o <<"\n">>
              ELSE <<>>)
             \o cname_record_lines(Tail(records))

record_lines(records) == a_record_lines(records) \o cname_record_lines(records)

zone_content(zone_name, zone_config, serial) ==
    zone_content_head(zone_name, serial) \o record_lines(Get(zone_config, "records", <<>>))

\* the three permission commands on a zone file
zone_file_commands(path) ==
    << <<"chown root:named ">> \o path,
       <<"chmod 640 ">> \o path,
       <<"restorecon -v ">> \o path >>

NamedServer_add_zone(m0, zone_name, zone_config, env) ==
    LET path == zone_file_path(zone_name)
        w == sftp_write(m0, path, "w", zone_content(zone_name, zone_config, now))
        p == run_commands(w, zone_file_commands(path))
        s == sftp_write(p, named_conf, "a",
                        zone_conf(zone_name, Get(zone_config, "type", "master")))
        c == raise_if_stderr(execute_command(s, CmdCheckConf, <<>>, env.checkconf),
                             "Zone configuration error: ")
        z == raise_if_zone_error(
                 execute_command(c, CmdCheckZone(zone_name),
                                 env.checkzone.out, env.checkzone.err))
        r == execute_command(z, CmdRestartNamed, <<>>, <<>>)
    IN  Wrap(r, "Zone configuration failed: ")

InAddrArpa == <<".", "i", "n", "-", "a", "d", "d", "r", ".", "a", "r", "p", "a">>

\* f"{ip_parts[2]}.{ip_parts[1]}.{ip_parts[0]}.in-addr.arpa" (Python indexes from 0)
reverse_zone(ip_parts) ==
    ip_parts[3] \o <<".">> \o ip_parts[2] \o <<".">> \o ip_parts[1] \o InAddrArpa

RECURSIVE ptr_record_lines(_)
ptr_record_lines(records) ==
    IF records = <<>> THEN <<>>
    ELSE LET record == Head(records)
             parts == split(record.ip)
             ip == parts[Len(parts)]
         IN  ip \o <<"    IN    PTR    ">> \o record.hostname \o <<"\n">>
             \o ptr_record_lines(Tail(records))

NamedServer_add_ptr_zone(m0, network, zone_config, env) ==
    LET ip_parts == split(network)
    IN  IF Len(ip_parts) < 3
        THEN Wrap(Raise(m0, [kind |-> "IndexError", msg |-> <<"list index out of range">>]),
                  "PTR zone configuration failed: ")
        ELSE
        LET rz   == reverse_zone(ip_parts)
            path == zone_file_path(rz)
            w == sftp_write(m0, path, "w",
                    ptr_zone_content_head(rz, now)
                    \o ptr_record_lines(Get(zone_config, "records", <<>>)))
            p == run_commands(w, zone_file_commands(path))
            s == sftp_write(p, named_conf, "a", ptr_zone_conf(rz))
            c == raise_if_stderr(execute_command(s, CmdCheckConf, <<>>, env.checkconf),
                                 "PTR zone configuration error: ")
            r == execute_command(c, CmdRestartNamed, <<>>, <<>>)
        IN  Wrap(r, "PTR zone configuration failed: ")

(***************************************************************************)
(* delete_zone and its regular expression                                  *)
(***************************************************************************)
\* the one-character tokens
Chars ==
    { "a", "b", "c", "d", "e", "h", "i", "n", "p", "r", "w", "x", "m",
      "0", "1", "2", "3", "5", "-", ".", "@", "}", ";", "\n" }

\* one pattern character of the zone name against one token of the text:
\* the name is put into the pattern unescaped, so "." is the wildcard
PatChar(p, tok) == IF p = "." THEN tok \in Chars \ {"\n"} ELSE tok = p

\* zone_pattern = f'zone "{zone_name}" IN {{[^}}]+}};' matched at text[i]:
\* the index of the token that ends the match, 0 when there is no match
match_end(zone_name, text, i) ==
    LET n == Len(zone_name)
        h == i + n + 1
        closers == { j \in (h + 1)..Len(text) : text[j] = "}" }
    IN  IF /\ h <= Len(text)
           /\ text[i] = "zone \""
           /\ \A k \in 1..n : PatChar(zone_name[k], text[i + k])
           /\ text[h] = "\" IN {"
           /\ closers # {}
        THEN LET j == CHOOSE c \in closers : \A d \in closers : c <= d
             IN  IF j > h + 1 /\ j + 1 <= Len(text) /\ text[j + 1] = ";"
                 THEN j + 1 ELSE 0
        ELSE 0

\* re.sub(zone_pattern, '', conf_content): leftmost matches, not overlapping
RECURSIVE re_sub_from(_, _, _)
re_sub_from(zone_name, text, i) ==
    IF i > Len(text) THEN <<>>
    ELSE IF match_end(zone_name, text, i) > 0
         THEN re_sub_from(zone_name, text, match_end(zone_name, text, i) + 1)
         ELSE <<text[i]>> \o re_sub_from(zone_name, text, i + 1)

re_sub(zone_name, conf_content) == re_sub_from(zone_name, conf_content, 1)

\* f.read() of an SFTP file gives bytes or text depending on the paramiko
\* build; re.sub with a str pattern raises TypeError on bytes
ReadKinds == {"str", "bytes"}

\* conf_content = f.read(); new_content = re.sub(...); write new_content
read_sub_write(m0, zone_name, read) ==
    Only({ IF Raised(m) THEN m
           ELSE IF read = "bytes"
                THEN Raise(m, [kind |-> "TypeError",
                               msg |-> <<"cannot use a string pattern on a bytes-like object">>])
           ELSE sftp_write(m, named_conf, "w", re_sub(zone_name, m.fs[named_conf]))
           : m \in {sftp_open_r(m0, named_conf)} })

NamedServer_delete_zone(m0, zone_name, env) ==
    LET zone_file == zone_file_path(zone_name)
        d == host_rm(execute_command(m0, <<"rm -f ">> \o zone_file, <<>>, <<>>), zone_file)
        w == read_sub_write(d, zone_name, env.read)
        r == execute_command(w, CmdRestartNamed, <<>>, <<>>)
    IN  Wrap(r, "Zone deletion failed: ")

(***************************************************************************)
(* DnsmasqServer                                                           *)
(***************************************************************************)
dnsmasq_install_after_query(q, env) ==
    IF Raised(q) THEN q
    ELSE IF Contains(<<"d", "n", "s", "m", "a", "s", "q", "-">>, LastOut(q)) THEN q
    ELSE Wrap(execute_command(
                execute_command(
                  host_yum(execute_command(q, CmdYumDnsmasq, <<>>, <<>>), "dnsmasq", env.yum),
                  CmdEnableDnsmasq, <<>>, <<>>),
                CmdStartDnsmasq, <<>>, <<>>),
              "Failed to install dnsmasq: ")

DnsmasqServer_install(m0, env) ==
    Only({ dnsmasq_install_after_query(q, env) :
             q \in { execute_command(m, CmdRpmQDnsmasq, RpmOut("dnsmasq", m.pkgs), <<>>)
                     : m \in {m0} } })

\* the end of DnsmasqServer.configure, which the source file breaks off
\* before: the active check and the wrapping handler, as for BIND
DnsmasqServer_configure_end(m0, env) ==
    Wrap(raise_unless_active(execute_command(m0, CmdIsActiveDnsmasq, env.status, <<>>),
                             "dnsmasq failed to start after configuration"),
         "Failed to configure dnsmasq: ")

DnsmasqServer_configure(m0, config, env) ==
    LET i == DnsmasqServer_install(m0, env)
        b == host_cp(execute_command(i, CmdBackupDnsmasq, <<>>, <<>>),
                     config_path, <<"/etc/dnsmasq.conf.bak">>)
        k == require_key(b, config, "upstream_dns")
        w == sftp_write(k, config_path, "w",
                <<"server=">> \o Get(config, "upstream_dns", <<>>)
                \o <<"\n", "cache-size=", Get(config, "cache_size", "0")>>)
        r == execute_command(w, CmdRestartDnsmasq, <<>>, <<>>)
    IN  DnsmasqServer_configure_end(r, env)

(***************************************************************************)
(* Inputs                                                                  *)
(***************************************************************************)
ZoneNames == { <<"a", ".", "b">>, <<"a", "x", "b">> }

ZoneConfigs ==
    { [records |-> << [name |-> <<"@">>, type |-> "A", value |-> <<"1">>],
                      [name |-> <<"w">>, type |-> "CNAME", value |-> <<"m", ".", "n">>] >>],
      [type |-> "slave"] }

Networks == { <<"1", ".", "2", ".", "3", ".", "0">>, <<"1", ".", "2">> }

PtrConfigs ==
    { [records |-> << [ip |-> <<"1", ".", "2", ".", "3", ".", "5">>,
                       hostname |-> <<"h", ".">>] >>] }

NamedConfigs == { [forwarder |-> <<"8.8.8.8">>], [listen |-> <<"any">>] }

DnsmasqConfigs ==
    { [upstream_dns |-> <<"8.8.8.8">>], [cache_size |-> "150"] }

SeqsUpTo(S, n) == UNION { [1..k -> S] : k \in 0..n }

\* records of the rendering specification
RecordUniverse ==
    { [name |-> <<"@">>, type |-> "A", value |-> <<"1">>],
      [name |-> <<"w">>, type |-> "A", value |-> <<"2">>],
      [name |-> <<"c">>, type |-> "CNAME", value |-> <<"m">>],
      [name |-> <<"c">>, type |-> "CNAME", value |-> <<"m", ".", "n">>],
      [name |-> <<"c">>, type |-> "CNAME", value |-> <<"m", ".">>],
      [name |-> <<"x">>, type |-> "TXT", value |-> <<"1">>] }

RenderConfigs == { [records |-> rs] : rs \in SeqsUpTo(RecordUniverse, MaxRecords) }

\* zone stanzas with no inner braces, as the hint zone of the template
simple_stanza(zone_name) ==
    << "\n", "zone \"" >> \o zone_name
    \o << "\" IN {", "\n        type master;\n        file \"db." >> \o zone_name
    \o << "\";\n", "}", ";", "\n" >>

SimpleNames == { <<"a", ".", "b">>, <<"a", "x", "b">>, <<"a">>, <<"b", "x">> }

RECURSIVE simple_conf(_)
simple_conf(names) ==
    IF names = <<>> THEN <<>> ELSE simple_stanza(Head(names)) \o simple_conf(Tail(names))

\* main configurations made of simple stanzas of distinct zones
SimpleZoneLists ==
    { ns \in SeqsUpTo(SimpleNames, MaxZones) :
        \A i, j \in 1..Len(ns) : i # j => ns[i] # ns[j] }

(***************************************************************************)
(* The state machine                                                       *)
(***************************************************************************)
NoCall ==
    [op |-> "none", arg |-> <<>>, cfg |-> <<>>, cmds |-> <<>>, sftp |-> <<>>,
     exc |-> NoExc, before |-> <<>>, connected |-> FALSE, poisoned |-> FALSE,
     prev |-> [op |-> "none", arg |-> <<>>, cfg |-> <<>>, ok |-> TRUE, before |-> <<>>]]

\* a fresh host and a new SSHClient
Init ==
    /\ transport = "none"
    /\ connected = FALSE
    /\ fs = <<>>
    /\ pkgs = {}
    /\ clock = 0
    /\ last = NoCall
    /\ rejected = <<>>

Record(op, arg, cfg, m) ==
    [op |-> op, arg |-> arg, cfg |-> cfg, cmds |-> m.cmds, sftp |-> m.sftp,
     exc |-> m.exc, before |-> fs, connected |-> connected,
     poisoned |-> rejected # <<>>,
     prev |-> [op |-> last.op, arg |-> last.arg, cfg |-> last.cfg,
               ok |-> last.exc.kind = "ok", before |-> last.before]]

\* a configurator call that ran to `m`
Done(op, arg, cfg, m) ==
    /\ fs' = m.fs
    /\ pkgs' = m.pkgs
    /\ clock' = clock + 1
    /\ last' = Record(op, arg, cfg, m)
    /\ UNCHANGED <<transport, connected>>

IsPrefix(s, t) == Len(s) <= Len(t) /\ \A i \in 1..Len(s) : s[i] = t[i]

\* the named-checkconf verdicts of the call that ran to `m`
CheckConfSeen(m) == { i \in 1..Len(m.cmds) : m.cmds[i].cmd = CmdCheckConf }
ConfRejected(m) == \E i \in CheckConfSeen(m) : m.cmds[i].err # <<>>

\* a checker that keeps rejecting a rejected file with more text appended
Monotone(m) ==
    (rejected # <<>> /\ CheckConfSeen(m) # {} /\ IsPrefix(rejected, Read(m.fs, named_conf)))
        => ConfRejected(m)

\* `rejected` after an add_zone/add_ptr_zone call that ran to `m`
RejectedAfter(m) ==
    IF CheckConfSeen(m) = {} THEN rejected
    ELSE IF ~ConfRejected(m) THEN <<>>
    ELSE IF rejected # <<>> THEN rejected
    ELSE m.fs[named_conf]

\* SSHClient.connect: paramiko keeps the old session when the socket cannot
\* be opened, and replaces it by an unauthenticated one when authentication
\* fails; either way DNSConfigError is raised
connect ==
    /\ \E outcome \in {"ok", "auth", "socket"} :
         /\ transport' = CASE outcome = "ok" -> "open"
                           [] outcome = "auth" -> "unauth"
                           [] OTHER -> transport
         /\ connected' = CASE outcome = "ok" -> TRUE
                           [] outcome = "auth" -> FALSE
                           [] OTHER -> connected
    /\ rejected' = <<>>
    /\ UNCHANGED <<fs, pkgs, clock, last>>

\* a close() that leaves the paramiko session open: the fault C6 excludes
close_keeps_session ==
    /\ connected' = FALSE
    /\ rejected' = <<>>
    /\ UNCHANGED <<transport, fs, pkgs, clock, last>>

close ==
    /\ transport' = "none"
    /\ connected' = FALSE
    /\ rejected' = <<>>
    /\ UNCHANGED <<fs, pkgs, clock, last>>

\* SSHClient.execute_command called by the user of the library
execute ==
    /\ clock < MaxCalls
    /\ Done("execute_command", <<"uptime">>, <<>>,
            execute_command(Begin, <<"uptime">>, <<>>, <<>>))
    /\ rejected' = <<>>

named_install ==
    /\ clock < MaxCalls
    /\ \E yum \in BOOLEAN :
         Done("install", <<>>, <<>>, NamedServer_install(Begin, [yum |-> yum]))
    /\ rejected' = <<>>

named_configure ==
    /\ clock < MaxCalls
    /\ \E config \in NamedConfigs, yum \in BOOLEAN,
          checkconf \in CheckConfErrs, status \in StatusTexts :
         Done("configure", <<>>, config,
              NamedServer_configure(Begin, config,
                  [yum |-> yum, checkconf |-> checkconf, status |-> status]))
    /\ rejected' = <<>>

add_zone(configs, mono) ==
    /\ clock < MaxCalls
    /\ \E zone_name \in ZoneNames, zone_config \in configs,
          checkconf \in CheckConfErrs, checkzone \in CheckZoneOuts :
         LET m == NamedServer_add_zone(Begin, zone_name, zone_config,
                      [checkconf |-> checkconf, checkzone |-> checkzone])
         IN  /\ mono => Monotone(m)
             /\ Done("add_zone", zone_name, zone_config, m)
             /\ rejected' = RejectedAfter(m)

add_ptr_zone(mono) ==
    /\ clock < MaxCalls
    /\ \E network \in Networks, zone_config \in PtrConfigs, checkconf \in CheckConfErrs :
         LET m == NamedServer_add_ptr_zone(Begin, network, zone_config,
                      [checkconf |-> checkconf])
         IN  /\ mono => Monotone(m)
             /\ Done("add_ptr_zone", network, zone_config, m)
             /\ rejected' = RejectedAfter(m)

delete_zone(names) ==
    /\ clock < MaxCalls
    /\ \E zone_name \in names, read \in ReadKinds :
         Done("delete_zone", zone_name, <<>>,
              NamedServer_delete_zone(Begin, zone_name, [read |-> read]))
    /\ rejected' = <<>>

dnsmasq_install ==
    /\ clock < MaxCalls
    /\ \E yum \in BOOLEAN :
         Done("dnsmasq_install", <<>>, <<>>, DnsmasqServer_install(Begin, [yum |-> yum]))
    /\ rejected' = <<>>

dnsmasq_configure ==
    /\ clock < MaxCalls
    /\ \E config \in DnsmasqConfigs, yum \in BOOLEAN, status \in StatusTexts :
         Done("dnsmasq_configure", <<>>, config,
              DnsmasqServer_configure(Begin, config, [yum |-> yum, status |-> status]))
    /\ rejected' = <<>>

Next ==
    \/ connect
    \/ close
    \/ execute
    \/ named_install
    \/ named_configure
    \/ add_zone(ZoneConfigs, FALSE)
    \/ add_ptr_zone(FALSE)
    \/ delete_zone(ZoneNames)
    \/ dnsmasq_install
    \/ dnsmasq_configure

Spec == Init /\ [][Next]_vars


\* the same calls against a named-checkconf that is monotone in the file
NextMono ==
    \/ connect
    \/ close
    \/ execute
    \/ named_install
    \/ named_configure
    \/ add_zone(ZoneConfigs, TRUE)
    \/ add_ptr_zone(TRUE)
    \/ delete_zone(ZoneNames)
    \/ dnsmasq_install
    \/ dnsmasq_configure

SpecMono == Init /\ [][NextMono]_vars

\* rendering: one add_zone call over a connected session, any record list
InitRender ==
    /\ transport = "open"
    /\ connected = TRUE
    /\ fs = <<>>
    /\ pkgs = {"bind"}
    /\ clock = 0
    /\ last = NoCall
    /\ rejected = <<>>

NextRender == clock = 0 /\ add_zone(RenderConfigs, FALSE)

SpecRender == InitRender /\ [][NextRender]_vars

\* deletion: one delete_zone call on a host whose main configuration is
\* made of simple stanzas, each zone with its zone file
RECURSIVE zone_files(_)
zone_files(names) ==
    IF names = <<>> THEN <<>>
    ELSE Put(zone_files(Tail(names)), zone_file_path(Head(names)), <<"$TTL 86400\n">>)

InitDelete ==
    /\ transport = "open"
    /\ connected = TRUE
    /\ \E ns \in SimpleZoneLists : fs = Put(zone_files(ns), named_conf, simple_conf(ns))
    /\ pkgs = {"bind"}
    /\ clock = 0
    /\ last = NoCall
    /\ rejected = <<>>

NextDelete == clock = 0 /\ delete_zone(SimpleNames)

SpecDelete == InitDelete /\ [][NextDelete]_vars

(***************************************************************************)
(* Properties                                                              *)
(***************************************************************************)
Issued(call, command) == \E i \in 1..Len(call.cmds) : call.cmds[i].cmd = command
Uploaded(call, path, mode) ==
    \E i \in 1..Len(call.sftp) : call.sftp[i] = [path |-> path, mode |-> mode]
AddOps == {"add_zone", "add_ptr_zone"}

\* a checker reported an error during the call
CheckerReportedError(call) ==
    \E i \in 1..Len(call.cmds) :
        \/ call.cmds[i].cmd = CmdCheckConf /\ call.cmds[i].err # <<>>
        \/ /\ call.op = "add_zone"
           /\ call.cmds[i].cmd = CmdCheckZone(call.arg)
           /\ ~Contains(<<"O", "K">>, call.cmds[i].out \o call.cmds[i].err)

\* C1: in configure, add_zone and add_ptr_zone, whenever a checker reports an
\* error (named-checkconf stderr not empty, or named-checkzone output without
\* "OK"), the call raises and issues no `systemctl restart named`.
C1_CheckerErrorAborts ==
    (last.op \in {"configure", "add_zone", "add_ptr_zone"} /\ CheckerReportedError(last))
        => (last.exc.kind # "ok" /\ ~Issued(last, CmdRestartNamed))

IsActiveState(stdout) ==
    stdout \in { <<"a", "c", "t", "i", "v", "e">>, <<"a", "c", "t", "i", "v", "e", "\n">> }

\* C2: configure returns normally only if `systemctl is-active named`
\* reported the state active.
C2_ConfigureOkOnlyIfActive ==
    (last.op = "configure" /\ last.exc.kind = "ok")
        => \E i \in 1..Len(last.cmds) :
              last.cmds[i].cmd = CmdIsActiveNamed /\ IsActiveState(last.cmds[i].out)

\* a stanza without the line breaks around it
StanzaText(stanza) == SubSeq(stanza, 2, Len(stanza) - 1)

\* C3: on a main configuration of simple stanzas, delete_zone(name) that
\* completes removes the stanza of `name` and leaves the stanza of every
\* other zone as it was.
C3_DeleteRemovesExactlyOne ==
    (last.op = "delete_zone" /\ last.exc.kind = "ok")
        => /\ ~Contains(StanzaText(simple_stanza(last.arg)), fs[named_conf])
           /\ \A n \in SimpleNames \ {last.arg} :
                 Contains(StanzaText(simple_stanza(n)), last.before[named_conf])
                    => Contains(StanzaText(simple_stanza(n)), fs[named_conf])

ConfiguratorOps ==
    {"install", "configure", "add_zone", "add_ptr_zone", "delete_zone",
     "dnsmasq_install", "dnsmasq_configure"}

\* C4: a configurator operation ends normally or with DNSConfigError; no
\* other exception kind escapes.
C4_OnlyDNSConfigError ==
    last.op \in ConfiguratorOps => last.exc.kind \in {"ok", "DNSConfigError"}

\* the stanzas of zone_name in a main configuration
StanzaHeads(zone_name, text) ==
    { i \in 1..Len(text) :
        /\ text[i] = "zone \""
        /\ i + Len(zone_name) + 1 <= Len(text)
        /\ SubSeq(text, i + 1, i + Len(zone_name)) = zone_name
        /\ text[i + Len(zone_name) + 1] = "\" IN {" }

\* C5: after add_zone(name, config) called twice in succession, the main
\* configuration holds exactly one stanza for `name`, and db.<name> exists.
C5_AddZoneIdempotent ==
    (/\ last.op = "add_zone" /\ last.prev.op = "add_zone"
     /\ last.prev.arg = last.arg /\ last.prev.cfg = last.cfg
     /\ last.prev.ok
     /\ Uploaded(last, named_conf, "a"))
        => /\ Cardinality(StanzaHeads(last.arg, fs[named_conf])) = 1
           /\ Exists(fs, zone_file_path(last.arg))

\* C6: a command reaches the host, or a remote file is opened, only in a
\* call made while connect() has succeeded and close() was not called since.
C6_CommandsOnlyWhenConnected ==
    (last.cmds # <<>> \/ last.sftp # <<>>) => last.connected

\* a call after close() that followed a successful call: nothing reached the host
C6_Witness ==
    /\ last.op = "add_zone" /\ ~last.connected
    /\ last.cmds = <<>> /\ last.sftp = <<>> /\ last.exc.kind = "DNSConfigError"
    /\ last.prev.op = "add_zone" /\ last.prev.ok

\* the record lines the claim describes
Dotted(value) ==
    IF (\E i \in 1..Len(value) : value[i] = ".") /\ value[Len(value)] # "."
    THEN value \o <<".">> ELSE value
IsA(record) == record.type = "A"
IsCNAME(record) == record.type = "CNAME"
ExpectedLines(records) ==
    LET As == SelectSeq(records, IsA)
        Cs == SelectSeq(records, IsCNAME)
    IN  Flatten([i \in 1..Len(As) |->
                    As[i].name \o <<"    IN    A    ">> \o As[i].value \o <<"\n">>])
        \o Flatten([i \in 1..Len(Cs) |->
                    Cs[i].name \o <<"    IN    CNAME    ">> \o Dotted(Cs[i].value) \o <<"\n">>])

\* C7: the zone file written by add_zone holds, after its head, one line per
\* A record in input order, then one line per CNAME record in input order,
\* a CNAME value gaining one trailing dot iff it has a dot and no trailing dot.
C7_RecordLines ==
    (last.op = "add_zone" /\ Uploaded(last, zone_file_path(last.arg), "w"))
        => fs[zone_file_path(last.arg)]
             = zone_content_head(last.arg, Timestamp[clock])
               \o ExpectedLines(Get(last.cfg, "records", <<>>))

C7_Witness ==
    /\ last.op = "add_zone" /\ Uploaded(last, zone_file_path(last.arg), "w")
    /\ "records" \in DOMAIN last.cfg
    /\ last.cfg.records =
         << [name |-> <<"c">>, type |-> "CNAME", value |-> <<"m", ".", "n">>],
            [name |-> <<"@">>, type |-> "A", value |-> <<"1">>],
            [name |-> <<"c">>, type |-> "CNAME", value |-> <<"m">>] >>

Whitespace == { "\n", "\n    ", "\n\n", " " }
NotWhitespace(tok) == tok \notin Whitespace
StripWs(text) == SelectSeq(text, NotWhitespace)

ZoneHeads(text) == { i \in 1..Len(text) : text[i] = "zone \"" }
OtherFiles(f) == DOMAIN f \ {named_conf, <<"/etc/named.conf.bak">>}

\* C9: after a configure call that reached the upload, the main configuration
\* is exactly the template for the given forwarder, its only zone stanza the
\* root hint zone, and every other file of the host (the zone files) is as
\* it was.
C9_ConfigureOverwrites ==
    (last.op = "configure" /\ Uploaded(last, named_conf, "w"))
        => /\ fs[named_conf] = named_conf_content(last.cfg.forwarder)
           /\ Cardinality(ZoneHeads(fs[named_conf])) = 1
           /\ \A path \in OtherFiles(last.before) :
                 Exists(fs, path) /\ fs[path] = last.before[path]

\* configure after a successful add_zone: the stanza is gone, the zone file stays
C9_Witness ==
    /\ last.op = "configure" /\ Uploaded(last, named_conf, "w")
    /\ last.prev.op = "add_zone" /\ last.prev.ok
    /\ StanzaHeads(last.prev.arg, last.before[named_conf]) # {}
    /\ StanzaHeads(last.prev.arg, fs[named_conf]) = {}
    /\ Exists(fs, zone_file_path(last.prev.arg))

IsSuffix(s, t) ==
    Len(s) <= Len(t) /\ \A i \in 1..Len(s) : s[i] = t[Len(t) - Len(s) + i]

\* the stanza an add_zone / add_ptr_zone call appends
AppendedStanza(call) ==
    IF call.op = "add_zone"
    THEN zone_conf(call.arg, Get(call.cfg, "type", "master"))
    ELSE ptr_zone_conf(reverse_zone(split(call.arg)))
AddedZoneFile(call) ==
    IF call.op = "add_zone" THEN zone_file_path(call.arg)
    ELSE zone_file_path(reverse_zone(split(call.arg)))

\* C10: (a) an add_zone / add_ptr_zone call whose config check rejects raises
\* without restarting and leaves the zone file and the appended stanza on the
\* host; (b) while only add_zone / add_ptr_zone are called afterwards the
\* rejected text stays a prefix of the main configuration; (c) so, with a
\* checker that keeps rejecting it, every such later call raises, gets no
\* further than the config check (which it reaches unless its network
\* argument has fewer than three parts) and never restarts the service.
C10_RejectedStanzaStays ==
    /\ (last.op \in AddOps /\ ConfRejected(last))
          => /\ last.exc.kind = "DNSConfigError"
             /\ ~Issued(last, CmdRestartNamed)
             /\ Exists(fs, AddedZoneFile(last))
             /\ IsSuffix(AppendedStanza(last), fs[named_conf])
    /\ rejected # <<>> => IsPrefix(rejected, Read(fs, named_conf))
    /\ (last.op \in AddOps /\ last.poisoned)
          => /\ last.exc.kind = "DNSConfigError"
             /\ ~Issued(last, CmdRestartNamed)
             /\ last.op = "add_zone" => ~Issued(last, CmdCheckZone(last.arg))
             /\ (last.op = "add_zone" \/ Len(split(last.arg)) >= 3)
                   => CheckConfSeen(last) # {}
             /\ CheckConfSeen(last) # {}
                   => (ConfRejected(last) /\ last.cmds[Len(last.cmds)].cmd = CmdCheckConf)

\* a later call, after a rejected one, that is rejected at the config check
C10_Witness ==
    /\ last.op = "add_ptr_zone" /\ last.poisoned /\ ConfRejected(last)
    /\ last.prev.op = "add_zone" /\ ~last.prev.ok

=============================================================================
